---------------------------- MODULE Spec2Model ----------------------------
(***************************************************************************)
(* State-machine model of the jwt-crud-api request handlers:               *)
(*   middlewares/auth.js, routes/auth.routes.js, routes/product.routes.js  *)
(*   and the error handler of app.js.                                      *)
(*                                                                         *)
(* Every request runs in a slot of `reqs`.  A handler is cut into steps at *)
(* its `await`s on the database: the code between two awaits runs without  *)
(* interleaving (single-threaded event loop), each database call is one    *)
(* atomic step, and steps of different requests interleave freely.         *)
(***************************************************************************)
EXTENDS Integers, Sequences, FiniteSets, TLC

VARIABLES users, products, now, issued, reqs

vars == <<users, products, now, issued, reqs>>

---------------------------------------------------------------------------
(* Bounds of the model *)

MaxUsers == 2
MaxProducts == 2
MaxReq == 2
MaxTime == 1

(* Program constants *)

ExpiresIn == 1          \* JWT_EXPIRES_IN, one tick of the model clock
MinLimit == 1           \* isInt({ min: 1, max: 100 }) / isInt({ min: 1 })
MaxLimit == 100
DefaultPage == 1
DefaultLimit == 10
MinPassword == 6

---------------------------------------------------------------------------
(* Input alphabets *)

Slots == 1..MaxReq
UserIds == 1..MaxUsers

Emails == {"a@mail.com", "b@mail.com"}
RawEmails == Emails \cup {"not-an-email"}
Passwords == {"", "12345", "123456", "654321"}
Names == {"Teclado", "Mouse"}
RawNames == Names \cup {""}

StrLen(s) ==
  CASE s = "" -> 0
    [] s = "12345" -> 5
    [] s = "123456" -> 6
    [] s = "654321" -> 6
    [] OTHER -> 7

JWT_SECRET == "secret"

---------------------------------------------------------------------------
(* jsonwebtoken: sign / verify.  A signature is the key together with the  *)
(* payload it was computed over, so that altering a payload field makes    *)
(* the signature stop matching.                                            *)

(* String(objectId) and the cast back that Mongoose applies to a string. *)
String(id) == <<"str", id>>
ObjectId(str) == str[2]

Signature(key, sub, email, exp) == <<key, sub, email, exp>>

jwtSign(email, sub, t) ==
  [kind |-> "jwt", sub |-> sub, email |-> email, exp |-> t + ExpiresIn,
   sig |-> Signature(JWT_SECRET, sub, email, t + ExpiresIn)]

jwtVerify_NoSignatureCheck(token, t) ==
  /\ token.kind = "jwt"
  /\ t < token.exp

jwtVerify(token, t) ==
  /\ token.kind = "jwt"
  /\ token.sig = Signature(JWT_SECRET, token.sub, token.email, token.exp)
  /\ t < token.exp

NoToken == [kind |-> "empty", sub |-> String(0), email |-> "-", exp |-> 0,
            sig |-> <<"-", String(0), "-", 0>>]
GarbageToken == [NoToken EXCEPT !.kind = "garbage"]

NoUser == [id |-> String(0), email |-> "-"]

(* middlewares/auth.js *)
auth(header, t) ==
  LET token == IF header.scheme = "Bearer" THEN header.token ELSE NoToken
  IN  IF token.kind = "empty"
        THEN [ok |-> FALSE, status |-> 401, msg |-> "Token nao informado",
              user |-> NoUser]
      ELSE IF jwtVerify(token, t)
        THEN [ok |-> TRUE, status |-> 0, msg |-> "",
              user |-> [id |-> token.sub, email |-> token.email]]
      ELSE [ok |-> FALSE, status |-> 401, msg |-> "Token invalido ou expirado",
            user |-> NoUser]

(* Tokens a client can present: the ones the service handed out, the same  *)
(* with one payload field altered, tokens signed with another key, text    *)
(* that is no JWT, and no token at all.                                    *)
Altered(tok) ==
  {[tok EXCEPT !.sub = String(s)] : s \in UserIds \ {ObjectId(tok.sub)}}
    \cup {[tok EXCEPT !.email = e] : e \in Emails \ {tok.email}}
    \cup {[tok EXCEPT !.exp = tok.exp + 1]}

Forged ==
  {[kind |-> "jwt", sub |-> String(s), email |-> e,
    exp |-> MaxTime + ExpiresIn + 1,
    sig |-> Signature("other-key", String(s), e, MaxTime + ExpiresIn + 1)] :
      s \in UserIds, e \in Emails}

Bearer(tok) == [scheme |-> "Bearer", token |-> tok]

IssuedHeaders == {Bearer(tok) : tok \in issued}

BadHeaders ==
  {[scheme |-> "none", token |-> NoToken], Bearer(NoToken),
   Bearer(GarbageToken)}
    \cup {[scheme |-> "Basic", token |-> tok] : tok \in issued}
    \cup {Bearer(tok) : tok \in UNION {Altered(i) : i \in issued}}
    \cup {Bearer(tok) : tok \in Forged}

Headers == IssuedHeaders \cup BadHeaders

---------------------------------------------------------------------------
(* models/User.js: password stored as a salted hash, compared by hashing   *)
(* the candidate with the stored salt.                                     *)

Hash(salt, password) == [salt |-> salt, digest |-> <<salt, password>>]

comparePassword(user, password) == Hash(user.hash.salt, password) = user.hash

findUserByEmail(email) == {i \in 1..Len(users) : users[i].email = email}

---------------------------------------------------------------------------
(* Request slots *)

NoDoc == [id |-> 0, owner |-> 0, active |-> FALSE, name |-> ""]
NoBody == [hasName |-> FALSE, name |-> "", hasActive |-> FALSE,
           active |-> FALSE, hasOwner |-> FALSE, owner |-> 0]

Idle ==
  [op |-> "none", pc |-> "idle", user |-> NoUser, pid |-> 0,
   email |-> "-", password |-> "", delta |-> NoBody,
   status |-> 0, msg |-> "", doc |-> NoDoc, token |-> NoToken,
   page |-> 0, limit |-> 0, search |-> "", sort |-> "",
   items |-> <<>>, total |-> 0, gotItems |-> FALSE, gotTotal |-> FALSE]

(* utils/error.js AppError handed to next(), rendered by app.js *)
Fail(slot, op, status, msg) ==
  [slot EXCEPT !.op = op, !.pc = "done", !.status = status, !.msg = msg,
               !.password = "", !.delta = NoBody]

ValidationFailed(slot, op) == Fail(slot, op, 422, "errors")

(* A response is read by its client before anything else happens, and a    *)
(* new request takes the lowest free slot (slots are interchangeable).     *)
Delivered == \A s \in Slots : reqs[s].pc # "done"

Ready(r) ==
  /\ Delivered
  /\ reqs[r].pc = "idle"
  /\ \A s \in Slots : s < r => reqs[s].pc # "idle"

At(r, op, pc) == Delivered /\ reqs[r].op = op /\ reqs[r].pc = pc

Init ==
  /\ users = <<>>
  /\ products = <<>>
  /\ now = 0
  /\ issued = {}
  /\ reqs = [r \in Slots |-> Idle]

---------------------------------------------------------------------------
(* routes/auth.routes.js *)

isEmail(e) == e \in Emails

(* POST /auth/register, up to and including `await User.findOne` *)
RegisterFind(r, email, password, name) ==
  /\ Ready(r)
  /\ reqs' = [reqs EXCEPT ![r] =
       IF name = "" \/ ~isEmail(email) \/ StrLen(password) < MinPassword
         THEN ValidationFailed(@, "register")
       ELSE IF findUserByEmail(email) # {}
         THEN Fail([@ EXCEPT !.email = email], "register", 409,
                   "Email ja cadastrado")
       ELSE [@ EXCEPT !.op = "register", !.pc = "create", !.email = email,
                      !.password = password]]
  /\ UNCHANGED <<users, products, now, issued>>

(* models/User.js: unique index on email *)
UniqueIndexAllows(email) == findUserByEmail(email) = {}

(* `await User.create`, then jwt.sign and the 201 response.  A duplicate-  *)
(* key error of the index carries no statusCode: app.js answers 500.       *)
RegisterCreate(r) ==
  /\ At(r, "register", "create")
  /\ IF UniqueIndexAllows(reqs[r].email)
       THEN LET id == Len(users) + 1
                tok == jwtSign(reqs[r].email, String(id), now)
            IN  /\ Len(users) < MaxUsers
                /\ users' = Append(users,
                     [id |-> id, email |-> reqs[r].email,
                      hash |-> Hash(id, reqs[r].password)])
                /\ issued' = issued \cup {tok}
                /\ reqs' = [reqs EXCEPT ![r] =
                     [@ EXCEPT !.pc = "done", !.status = 201,
                               !.user = [id |-> String(id), email |-> reqs[r].email],
                               !.token = tok, !.password = ""]]
       ELSE /\ reqs' = [reqs EXCEPT ![r] =
                 Fail(@, "register", 500, "E11000 duplicate key")]
            /\ UNCHANGED <<users, issued>>
  /\ UNCHANGED <<products, now>>

LoginFind_Distinguish(r, email, password) ==
  /\ Ready(r)
  /\ reqs' = [reqs EXCEPT ![r] =
       IF ~isEmail(email) \/ password = ""
         THEN ValidationFailed(@, "login")
       ELSE IF findUserByEmail(email) = {}
         THEN Fail([@ EXCEPT !.email = email], "login", 404,
                   "Usuario nao encontrado")
       ELSE [@ EXCEPT !.op = "login", !.pc = "compare", !.email = email,
                      !.password = password,
                      !.user = [id |-> String(CHOOSE i \in findUserByEmail(email) : TRUE),
                                email |-> email]]]
  /\ UNCHANGED <<users, products, now, issued>>

(* POST /auth/login, up to and including `await User.findOne` *)
LoginFind(r, email, password) ==
  /\ Ready(r)
  /\ reqs' = [reqs EXCEPT ![r] =
       IF ~isEmail(email) \/ password = ""
         THEN ValidationFailed(@, "login")
       ELSE IF findUserByEmail(email) = {}
         THEN Fail([@ EXCEPT !.email = email], "login", 401,
                   "Credenciais invalidas")
       ELSE [@ EXCEPT !.op = "login", !.pc = "compare", !.email = email,
                      !.password = password,
                      !.user = [id |-> String(CHOOSE i \in findUserByEmail(email) : TRUE),
                                email |-> email]]]
  /\ UNCHANGED <<users, products, now, issued>>

(* `await user.comparePassword`, then jwt.sign and the 200 response *)
LoginCompare(r) ==
  /\ At(r, "login", "compare")
  /\ LET user == users[ObjectId(reqs[r].user.id)]
         tok == jwtSign(user.email, String(user.id), now)
     IN  IF comparePassword(user, reqs[r].password)
           THEN /\ issued' = issued \cup {tok}
                /\ reqs' = [reqs EXCEPT ![r] =
                     [@ EXCEPT !.pc = "done", !.status = 200, !.token = tok]]
           ELSE /\ reqs' = [reqs EXCEPT ![r] =
                     Fail([@ EXCEPT !.user = NoUser], "login", 401,
                          "Credenciais invalidas")]
                /\ UNCHANGED issued
  /\ UNCHANGED <<users, products, now>>

(* GET /auth/me *)
Me(r, header) ==
  /\ Ready(r)
  /\ LET a == auth(header, now)
     IN  reqs' = [reqs EXCEPT ![r] =
           IF ~a.ok THEN Fail(@, "me", a.status, a.msg)
           ELSE [@ EXCEPT !.op = "me", !.pc = "done", !.status = 200,
                          !.user = a.user]]
  /\ UNCHANGED <<users, products, now, issued>>

---------------------------------------------------------------------------
(* routes/product.routes.js *)

(* ids a client asks for: no ObjectId (0), the stored ones, a missing one *)
Pids == 0..(Len(products) + 1)

isMongoId(pid) == pid # 0

findById(pid) == IF pid \in 1..Len(products) THEN products[pid] ELSE NoDoc

(* Object.assign(product, req.body): every key of the body is assigned. *)
Assign(product, body) ==
  [product EXCEPT
     !.name = IF body.hasName THEN body.name ELSE @,
     !.active = IF body.hasActive THEN body.active ELSE @,
     !.owner = IF body.hasOwner THEN body.owner ELSE @]

ModifiedPaths_AllAssigned(product, body) == body

(* Mongoose marks a path modified only when the assigned value differs. *)
ModifiedPaths(product, body) ==
  LET hn == body.hasName /\ body.name # product.name
      ha == body.hasActive /\ body.active # product.active
      ho == body.hasOwner /\ body.owner # product.owner
  IN  [hasName |-> hn, name |-> IF hn THEN body.name ELSE "",
       hasActive |-> ha, active |-> IF ha THEN body.active ELSE FALSE,
       hasOwner |-> ho, owner |-> IF ho THEN body.owner ELSE 0]

(* product.save() of a loaded document: $set of the modified paths. *)
save(pid, delta) == [products EXCEPT ![pid] = Assign(@, delta)]

(* Request bodies of one field: a new name, an empty name, active false,   *)
(* active true, and the id of a registered user as owner.                  *)
Rename == [NoBody EXCEPT !.hasName = TRUE, !.name = "Mouse"]
Unnamed == [NoBody EXCEPT !.hasName = TRUE]
Deactivate == [NoBody EXCEPT !.hasActive = TRUE, !.active = FALSE]
Activate == [NoBody EXCEPT !.hasActive = TRUE, !.active = TRUE]
HandOver(u) == [NoBody EXCEPT !.hasOwner = TRUE, !.owner = u]

PatchBodies ==
  {Rename, Unnamed, Deactivate, Activate}
    \cup {HandOver(u) : u \in 1..Len(users)}

ValidPatchBody(body) == ~(body.hasName /\ body.name = "")

(* GET /products/:id *)
GetProduct(r, pid) ==
  /\ Ready(r)
  /\ LET item == findById(pid)
     IN  reqs' = [reqs EXCEPT ![r] =
           IF ~isMongoId(pid) THEN ValidationFailed(@, "get")
           ELSE IF item = NoDoc \/ ~item.active
             THEN Fail([@ EXCEPT !.pid = pid], "get", 404,
                       "Produto nao encontrado")
           ELSE [@ EXCEPT !.op = "get", !.pc = "done", !.status = 200,
                          !.pid = pid, !.doc = item]]
  /\ UNCHANGED <<users, products, now, issued>>

(* POST /products *)
CreateProduct(r, header, name, price, body) ==
  /\ Ready(r)
  /\ LET a == auth(header, now)
         id == Len(products) + 1
         data == [id |-> id, owner |-> ObjectId(a.user.id), active |-> TRUE,
                  name |-> name]
     IN  IF ~a.ok
           THEN /\ reqs' = [reqs EXCEPT ![r] = Fail(@, "create", a.status, a.msg)]
                /\ UNCHANGED products
         ELSE IF name = "" \/ price < 0
           THEN /\ reqs' = [reqs EXCEPT ![r] =
                     ValidationFailed([@ EXCEPT !.user = a.user], "create")]
                /\ UNCHANGED products
         ELSE /\ Len(products) < MaxProducts
              /\ products' = Append(products, data)
              /\ reqs' = [reqs EXCEPT ![r] =
                   [@ EXCEPT !.op = "create", !.pc = "done", !.status = 201,
                             !.user = a.user, !.pid = id, !.doc = data]]
  /\ UNCHANGED <<users, now, issued>>

authorizeMutation_OwnerFirst(product, user) ==
  IF product # NoDoc /\ String(product.owner) # user.id THEN 403
  ELSE IF product = NoDoc \/ ~product.active THEN 404
  ELSE 0

authorizeMutation_NoActiveCheck(product, user) ==
  IF product = NoDoc THEN 404
  ELSE IF String(product.owner) # user.id THEN 403
  ELSE 0

authorizeMutation_NoOwnerCheck(product, user) ==
  IF product = NoDoc \/ ~product.active THEN 404 ELSE 0

(* The check both PATCH and DELETE make on the document they loaded. *)
authorizeMutation(product, user) ==
  IF product = NoDoc \/ ~product.active THEN 404
  ELSE IF String(product.owner) # user.id THEN 403
  ELSE 0

Denied(status) ==
  IF status = 404 THEN "Produto nao encontrado" ELSE "Sem permissao"

(* PATCH /products/:id, up to Object.assign and the call of save() *)
PatchFind(r, header, pid, body) ==
  /\ Ready(r)
  /\ LET a == auth(header, now)
         product == findById(pid)
         denied == authorizeMutation(product, a.user)
     IN  reqs' = [reqs EXCEPT ![r] =
           IF ~a.ok THEN Fail(@, "patch", a.status, a.msg)
           ELSE IF ~isMongoId(pid) \/ ~ValidPatchBody(body)
             THEN ValidationFailed([@ EXCEPT !.user = a.user], "patch")
           ELSE IF denied # 0
             THEN Fail([@ EXCEPT !.user = a.user, !.pid = pid], "patch",
                       denied, Denied(denied))
           ELSE [@ EXCEPT !.op = "patch", !.pc = "save", !.user = a.user,
                          !.pid = pid, !.delta = ModifiedPaths(product, body)]]
  /\ UNCHANGED <<users, products, now, issued>>

(* `await product.save()` and the 200 response *)
PatchSave(r) ==
  /\ At(r, "patch", "save")
  /\ products' = save(reqs[r].pid, reqs[r].delta)
  /\ reqs' = [reqs EXCEPT ![r] =
       [@ EXCEPT !.pc = "done", !.status = 200]]
  /\ UNCHANGED <<users, now, issued>>

(* DELETE /products/:id, up to product.active = false and the call of save() *)
DeleteFind(r, header, pid) ==
  /\ Ready(r)
  /\ LET a == auth(header, now)
         product == findById(pid)
         denied == authorizeMutation(product, a.user)
         body == [NoBody EXCEPT !.hasActive = TRUE, !.active = FALSE]
     IN  reqs' = [reqs EXCEPT ![r] =
           IF ~a.ok THEN Fail(@, "delete", a.status, a.msg)
           ELSE IF ~isMongoId(pid)
             THEN ValidationFailed([@ EXCEPT !.user = a.user], "delete")
           ELSE IF denied # 0
             THEN Fail([@ EXCEPT !.user = a.user, !.pid = pid], "delete",
                       denied, Denied(denied))
           ELSE [@ EXCEPT !.op = "delete", !.pc = "save", !.user = a.user,
                          !.pid = pid, !.delta = ModifiedPaths(product, body)]]
  /\ UNCHANGED <<users, products, now, issued>>

(* `await product.save()` and the 204 response *)
DeleteSave(r) ==
  /\ At(r, "delete", "save")
  /\ products' = save(reqs[r].pid, reqs[r].delta)
  /\ reqs' = [reqs EXCEPT ![r] =
       [@ EXCEPT !.pc = "done", !.status = 204, !.delta = NoBody]]
  /\ UNCHANGED <<users, now, issued>>

---------------------------------------------------------------------------
(* GET /products: query validation and the two queries of Promise.all *)

(* A query-string value: absent, text that is no number, or a decimal      *)
(* number given in tenths (15 is the text "1.5").                          *)
Absent == [kind |-> "absent", tenths |-> 0]
Text == [kind |-> "text", tenths |-> 0]
Num(t) == [kind |-> "number", tenths |-> t]

(* validator.toInt: parseInt(text, 10), NaN for text without digits *)
toInt(raw) ==
  IF raw.kind = "number"
    THEN [nan |-> FALSE,
          n |-> IF raw.tenths >= 0 THEN raw.tenths \div 10
                ELSE -((-raw.tenths) \div 10)]
    ELSE [nan |-> TRUE, n |-> 0]

(* validator.isInt with { min, max }, applied to the sanitized value *)
isInt(v, min, max) == ~v.nan /\ v.n >= min /\ v.n <= max

(* query('page').optional().toInt().isInt({ min: 1 }) *)
ValidPage(raw) ==
  raw.kind = "absent" \/ (~toInt(raw).nan /\ toInt(raw).n >= MinLimit)

(* query('limit').optional().toInt().isInt({ min: 1, max: 100 }) *)
ValidLimit(raw) ==
  raw.kind = "absent" \/ isInt(toInt(raw), MinLimit, MaxLimit)

(* req.query.page || 1 and req.query.limit || 10 *)
OrDefault(raw, default) ==
  IF raw.kind = "absent" \/ toInt(raw).n = 0 THEN default ELSE toInt(raw).n

Reverse(s) == [i \in 1..Len(s) |-> s[Len(s) + 1 - i]]

Min(a, b) == IF a < b THEN a ELSE b

Matches_IgnoreActive(d, search) == search = "" \/ d.name = search

(* filter = { active: true } plus $text when search is given *)
Matches(d, search) == d.active /\ (search = "" \/ d.name = search)

Matching(search) == SelectSeq(products, LAMBDA d : Matches(d, search))

(* Product.find(filter).sort(sort).skip(skip).limit(limit); documents are  *)
(* stored in creation order, the default sort is createdAt descending.     *)
find(search, sort, skip, limit) ==
  LET found == Matching(search)
      sorted == IF sort = "createdAt" THEN found ELSE Reverse(found)
  IN  SubSeq(sorted, skip + 1, Min(skip + limit, Len(sorted)))

countDocuments(search) == Len(Matching(search))

Sorts == {"", "createdAt", "-createdAt"}
Searches == {""} \cup Names

ListStart(r, rawPage, rawLimit, search, sort) ==
  /\ Ready(r)
  /\ reqs' = [reqs EXCEPT ![r] =
       IF ~ValidPage(rawPage) \/ ~ValidLimit(rawLimit)
         THEN ValidationFailed(@, "list")
       ELSE [@ EXCEPT !.op = "list", !.pc = "query",
                      !.page = OrDefault(rawPage, DefaultPage),
                      !.limit = OrDefault(rawLimit, DefaultLimit),
                      !.search = search, !.sort = sort]]
  /\ UNCHANGED <<users, products, now, issued>>

ListDone(slot) ==
  IF slot.gotItems /\ slot.gotTotal
    THEN [slot EXCEPT !.pc = "done", !.status = 200]
    ELSE slot

ListFind(r) ==
  /\ At(r, "list", "query")
  /\ ~reqs[r].gotItems
  /\ LET skip == (reqs[r].page - 1) * reqs[r].limit
     IN  reqs' = [reqs EXCEPT ![r] =
           ListDone([@ EXCEPT !.gotItems = TRUE,
                              !.items = find(reqs[r].search, reqs[r].sort,
                                             skip, reqs[r].limit)])]
  /\ UNCHANGED <<users, products, now, issued>>

ListCount(r) ==
  /\ At(r, "list", "query")
  /\ ~reqs[r].gotTotal
  /\ reqs' = [reqs EXCEPT ![r] =
       ListDone([@ EXCEPT !.gotTotal = TRUE,
                          !.total = countDocuments(reqs[r].search)])]
  /\ UNCHANGED <<users, products, now, issued>>

---------------------------------------------------------------------------
(* The client reads the response; the slot is free for the next request.   *)
Respond(r) ==
  /\ reqs[r].pc = "done"
  /\ reqs' = [reqs EXCEPT ![r] = Idle]
  /\ UNCHANGED <<users, products, now, issued>>

(* Time passes. *)
Tick ==
  /\ Delivered
  /\ now < MaxTime
  /\ now' = now + 1
  /\ UNCHANGED <<users, products, issued, reqs>>

---------------------------------------------------------------------------
(* The authentication service under concurrent requests. *)
NextAuth ==
  \/ \E r \in Slots, e \in RawEmails, p \in Passwords, n \in {"", "Lucas"} :
       RegisterFind(r, e, p, n)
  \/ \E r \in Slots : RegisterCreate(r)
  \/ \E r \in Slots, e \in RawEmails, p \in Passwords : LoginFind(r, e, p)
  \/ \E r \in Slots : LoginCompare(r)
  \/ \E r \in Slots, h \in Headers : Me(r, h)
  \/ \E r \in Slots : Respond(r)

SpecAuth == Init /\ [][NextAuth]_vars

(* The store after two registrations; both users hold the token their     *)
(* registration returned.                                                  *)
Registered(i, email) ==
  [id |-> i, email |-> email, hash |-> Hash(i, "123456")]

InitRegistered ==
  /\ users = <<Registered(1, "a@mail.com"), Registered(2, "b@mail.com")>>
  /\ products = <<>>
  /\ now = 0
  /\ issued = {jwtSign("a@mail.com", String(1), 0),
               jwtSign("b@mail.com", String(2), 0)}
  /\ reqs = [r \in Slots |-> Idle]

NoHeader == [scheme |-> "none", token |-> NoToken]

ClientHeaders == IssuedHeaders \cup {NoHeader}

(* The read, update and delete routes under concurrent requests of the    *)
(* two users for one product, which the first user has created.            *)
InitContended ==
  /\ users = <<Registered(1, "a@mail.com"), Registered(2, "b@mail.com")>>
  /\ products = <<[id |-> 1, owner |-> 1, active |-> TRUE, name |-> "Teclado"]>>
  /\ now = 0
  /\ issued = {jwtSign("a@mail.com", String(1), 0),
               jwtSign("b@mail.com", String(2), 0)}
  /\ reqs = [r \in Slots |-> Idle]

NextProducts ==
  \/ \E r \in Slots, pid \in Pids : GetProduct(r, pid)
  \/ \E r \in Slots, h \in ClientHeaders, pid \in Pids, b \in PatchBodies :
       PatchFind(r, h, pid, b)
  \/ \E r \in Slots : PatchSave(r)
  \/ \E r \in Slots, h \in ClientHeaders, pid \in Pids : DeleteFind(r, h, pid)
  \/ \E r \in Slots : DeleteSave(r)
  \/ \E r \in Slots : Respond(r)

SpecProducts == InitContended /\ [][NextProducts]_vars

(* The listing and read routes, one request at a time, over a store that   *)
(* creation, renaming and soft deletion change between the reads.          *)
RawPages == {Absent, Text, Num(0), Num(5), Num(10), Num(15), Num(20), Num(30)}
RawLimits ==
  {Absent, Text, Num(0), Num(10), Num(20), Num(1000), Num(1005), Num(1010)}

NextListing ==
  \/ \E rawPage \in RawPages, rawLimit \in RawLimits, search \in Searches,
        sort \in Sorts : ListStart(1, rawPage, rawLimit, search, sort)
  \/ ListFind(1)
  \/ ListCount(1)
  \/ \E pid \in Pids : GetProduct(1, pid)
  \/ \E h \in ClientHeaders, n \in {"", "Teclado"}, price \in {-1, 0},
        b \in {NoBody, HandOver(2)} : CreateProduct(1, h, n, price, b)
  \/ \E h \in ClientHeaders, pid \in Pids : PatchFind(1, h, pid, Rename)
  \/ PatchSave(1)
  \/ \E h \in ClientHeaders, pid \in Pids : DeleteFind(1, h, pid)
  \/ DeleteSave(1)
  \/ Respond(1)

SpecListing == InitRegistered /\ [][NextListing]_vars

(* The guarded routes, one request at a time, with every kind of           *)
(* Authorization header a client can send and a clock that expires tokens. *)
NextGuard ==
  \/ \E e \in Emails : RegisterFind(1, e, "123456", "Lucas")
  \/ RegisterCreate(1)
  \/ \E e \in Emails, p \in {"123456", "654321"} : LoginFind(1, e, p)
  \/ LoginCompare(1)
  \/ \E h \in Headers : Me(1, h)
  \/ \E h \in Headers : CreateProduct(1, h, "Teclado", 0, NoBody)
  \/ \E h \in Headers, pid \in Pids : PatchFind(1, h, pid, Deactivate)
  \/ PatchSave(1)
  \/ \E h \in Headers, pid \in Pids : DeleteFind(1, h, pid)
  \/ DeleteSave(1)
  \/ Respond(1)
  \/ Tick

SpecGuard == Init /\ [][NextGuard]_vars

---------------------------------------------------------------------------
(* Properties *)

Exists(pid) == pid \in 1..Len(products)
Actor(slot) == ObjectId(slot.user.id)

(* The step in which slot r loads the product of a PATCH or DELETE that    *)
(* passed authentication and validation.                                   *)
StartsMutation(r) ==
  /\ reqs[r].pc = "idle"
  /\ reqs'[r].op \in {"patch", "delete"}
  /\ reqs'[r].status \notin {401, 422}

(* C1: an update or soft delete of a missing or inactive product answers   *)
(* 404 whoever the actor is, answers 403 only for an active product of     *)
(* another owner, and goes on to the write only for an active product of   *)
(* the actor: the existence/active check comes before the ownership check. *)
C1_CheckOrder ==
  [][\A r \in Slots : StartsMutation(r) =>
       LET pid == reqs'[r].pid
           missing == ~Exists(pid) \/ ~products[pid].active
           mine == products[pid].owner = Actor(reqs'[r])
       IN  /\ missing => reqs'[r].status = 404
           /\ (~missing /\ ~mine) => reqs'[r].status = 403
           /\ (~missing /\ mine) => reqs'[r].pc = "save"]_vars

(* a non-owner was answered 404 for an inactive product *)
C1_Witness ==
  \E r \in Slots :
    /\ reqs[r].pc = "done" /\ reqs[r].op \in {"patch", "delete"}
    /\ reqs[r].status = 404
    /\ Exists(reqs[r].pid)
    /\ ~products[reqs[r].pid].active
    /\ products[reqs[r].pid].owner # Actor(reqs[r])

(* C2: the owner of a product never changes after its creation, whatever   *)
(* the bodies of the updates are.                                          *)
C2_OwnerImmutable ==
  [][\A i \in 1..Len(products) : products'[i].owner = products[i].owner]_vars

(* C3: listing returns active products only; read-by-id answers 404 for a  *)
(* missing or inactive id and returns exactly the stored record of an      *)
(* active id.                                                              *)
C3_InactiveNeverReturned ==
  \A r \in Slots :
    /\ (reqs[r].op = "list" /\ reqs[r].gotItems) =>
         \A i \in 1..Len(reqs[r].items) :
           /\ reqs[r].items[i].active
           /\ reqs[r].items[i] = products[reqs[r].items[i].id]
    /\ (reqs[r].op = "get" /\ reqs[r].pc = "done" /\ reqs[r].status # 422) =>
         IF Exists(reqs[r].pid) /\ products[reqs[r].pid].active
           THEN reqs[r].status = 200 /\ reqs[r].doc = products[reqs[r].pid]
           ELSE reqs[r].status = 404 /\ reqs[r].doc = NoDoc

(* a listing returned items while the store holds an inactive product *)
C3_Witness ==
  \E r \in Slots :
    /\ reqs[r].pc = "done" /\ reqs[r].op = "list" /\ reqs[r].status = 200
    /\ Len(reqs[r].items) >= 1
    /\ \E i \in 1..Len(products) : ~products[i].active

(* C4: a soft delete sets active=false and keeps the record; a record is   *)
(* never removed, an inactive product never becomes active again, and      *)
(* every read-by-id, update or delete that looks up an inactive product    *)
(* answers 404, the owner's included.                                      *)
C4_SoftDeleteIsFinal ==
  [][/\ Len(products') >= Len(products)
     /\ \A i \in 1..Len(products) :
          ~products[i].active => ~products'[i].active
     /\ \A r \in Slots :
          (reqs[r].pc = "save" /\ reqs[r].op = "delete" /\ reqs'[r].pc = "done")
            => /\ reqs'[r].status = 204
               /\ ~products'[reqs[r].pid].active
     /\ \A r \in Slots :
          ( /\ reqs[r].pc = "idle"
            /\ reqs'[r].op \in {"get", "patch", "delete"}
            /\ reqs'[r].status \notin {401, 422}
            /\ Exists(reqs'[r].pid)
            /\ ~products[reqs'[r].pid].active )
            => reqs'[r].status = 404 /\ products' = products]_vars

(* the owner's update of a soft-deleted product was answered 404 *)
C4_Witness ==
  \E r \in Slots :
    /\ reqs[r].pc = "done" /\ reqs[r].op = "patch" /\ reqs[r].status = 404
    /\ Exists(reqs[r].pid)
    /\ ~products[reqs[r].pid].active
    /\ products[reqs[r].pid].owner = Actor(reqs[r])

(* The step in which the owner sends an update carrying active=true for a  *)
(* product that is inactive.                                               *)
OwnerReactivates(r, h, pid, b) ==
  /\ reqs[r].pc = "idle" /\ reqs'[r].op = "patch"
  /\ Exists(pid) /\ ~products[pid].active
  /\ b.hasActive /\ b.active /\ ValidPatchBody(b)
  /\ auth(h, now).ok
  /\ products[pid].owner = ObjectId(auth(h, now).user.id)
  /\ PatchFind(r, h, pid, b)

(* C5 as stated: the owner's update carrying active=true on an inactive    *)
(* product succeeds and the product becomes active again.                  *)
C5_Original ==
  [][\A r \in Slots : StartsMutation(r) =>
       \A h \in IssuedHeaders, pid \in Pids, b \in PatchBodies :
         OwnerReactivates(r, h, pid, b) => reqs'[r].pc = "save"]_vars

(* C5 amended: the owner's update sets active only on a product that is    *)
(* active, where active=false deactivates it; an update carrying           *)
(* active=true on an inactive product answers 404 and changes nothing, and *)
(* no step makes an inactive product active.                               *)
C5_NoReactivation ==
  [][/\ \A r \in Slots : StartsMutation(r) =>
          \A h \in IssuedHeaders, pid \in Pids, b \in PatchBodies :
            OwnerReactivates(r, h, pid, b) =>
              reqs'[r].status = 404 /\ products' = products
     /\ \A r \in Slots :
          (reqs[r].pc = "save" /\ reqs[r].op = "patch" /\ reqs'[r].pc = "done"
             /\ reqs[r].delta.hasActive)
            => ~reqs[r].delta.active /\ ~products'[reqs[r].pid].active
     /\ \A i \in 1..Len(products) :
          products'[i].active => products[i].active]_vars

(* an update carrying active=false was applied and deactivated the product *)
C5_Witness ==
  \E r \in Slots :
    /\ reqs[r].pc = "done" /\ reqs[r].op = "patch" /\ reqs[r].status = 200
    /\ reqs[r].delta.hasActive /\ ~reqs[r].delta.active
    /\ ~products[reqs[r].pid].active

(* The step in which slot r applies the write of its PATCH or DELETE. *)
Writes(r) ==
  /\ reqs[r].pc = "save"
  /\ reqs'[r].pc = "done"

(* C6 as stated: no write of an update or delete changes a product that is *)
(* inactive at the moment the write is applied.                            *)
C6_Original ==
  [][\A r \in Slots :
       (Writes(r) /\ ~products[reqs[r].pid].active) => products' = products]_vars

(* C6 amended: a write is applied only by a request that found the product *)
(* active and owned by its actor when it loaded it, and it changes only    *)
(* the fields that request changed; it can therefore land on a product a   *)
(* concurrent delete has made inactive, but it never sets active back to   *)
(* true, so a delete that succeeded is not undone.                         *)
C6_StaleWriteKeepsDelete ==
  [][/\ \A r \in Slots :
          (reqs[r].pc = "idle" /\ reqs'[r].pc = "save") =>
            /\ Exists(reqs'[r].pid)
            /\ products[reqs'[r].pid].active
            /\ products[reqs'[r].pid].owner = Actor(reqs'[r])
     /\ \A r \in Slots : Writes(r) =>
          LET d == reqs[r].delta
              old == products[reqs[r].pid]
              new == products'[reqs[r].pid]
          IN  /\ new.name = IF d.hasName THEN d.name ELSE old.name
              /\ new.owner = IF d.hasOwner THEN d.owner ELSE old.owner
              /\ new.active = IF d.hasActive THEN FALSE ELSE old.active
     /\ (\A i \in 1..Len(products) : products'[i] # products[i] =>
           \E r \in Slots : Writes(r) /\ reqs[r].pid = i)]_vars

(* an update that changed only the name was applied to an inactive product *)
C6_Witness ==
  \E r \in Slots :
    /\ reqs[r].pc = "done" /\ reqs[r].op = "patch" /\ reqs[r].status = 200
    /\ reqs[r].delta.hasName /\ ~reqs[r].delta.hasActive
    /\ ~products[reqs[r].pid].active
    /\ products[reqs[r].pid].name = reqs[r].delta.name

(* C7: a registration that creates no user because its e-mail is taken     *)
(* answers 409, and no two users share an e-mail.                          *)
C7_DuplicateIsConflict ==
  /\ \A i, j \in 1..Len(users) : users[i].email = users[j].email => i = j
  /\ \A r \in Slots :
       (reqs[r].pc = "done" /\ reqs[r].op = "register"
          /\ reqs[r].status \notin {201, 422}) => reqs[r].status = 409

Protected == {"me", "create", "patch", "delete"}

(* C8: a protected request either is answered 401, with the store left as  *)
(* it was, or acts as exactly the user id and e-mail of a token that       *)
(* register or login issued and that has not expired.                      *)
C8_GuardedByIssuedToken ==
  [][\A r \in Slots :
       (reqs[r].pc = "idle" /\ reqs'[r].op \in Protected) =>
         \/ /\ reqs'[r].status = 401
            /\ reqs'[r].pc = "done"
            /\ reqs'[r].user = NoUser
            /\ products' = products /\ users' = users
         \/ \E tok \in issued :
              /\ now < tok.exp
              /\ reqs'[r].user = [id |-> tok.sub, email |-> tok.email]
              /\ ObjectId(tok.sub) \in 1..Len(users)
              /\ users[ObjectId(tok.sub)].email = tok.email]_vars

(* a protected request was refused although tokens were issued: the clock  *)
(* has passed the expiry of every one of them                              *)
C8_Witness ==
  \E r \in Slots :
    /\ reqs[r].pc = "done" /\ reqs[r].op \in Protected
    /\ reqs[r].status = 401 /\ reqs[r].msg = "Token invalido ou expirado"
    /\ issued # {}
    /\ \A tok \in issued : tok.exp <= now

(* What the client of a login sees. *)
Response(slot) ==
  [status |-> slot.status, msg |-> slot.msg, token |-> slot.token]

InvalidCredentials ==
  [status |-> 401, msg |-> "Credenciais invalidas", token |-> NoToken]

(* C9: every login that fails on its credentials, for an unknown e-mail as *)
(* for a wrong password, gives the same response, and a login succeeds     *)
(* only for the e-mail of a user whose stored hash the password matches.   *)
C9_UniformLoginFailure ==
  \A r \in Slots :
    (reqs[r].pc = "done" /\ reqs[r].op = "login" /\ reqs[r].status # 422) =>
      \/ Response(reqs[r]) = InvalidCredentials
      \/ /\ reqs[r].status = 200
         /\ reqs[r].token \in issued
         /\ \E i \in 1..Len(users) :
              /\ users[i].email = reqs[r].email
              /\ users[i].hash.digest = <<users[i].hash.salt, reqs[r].password>>
              /\ reqs[r].token.sub = String(i)
              /\ reqs[r].token.email = reqs[r].email

(* a login with the e-mail of a registered user failed on the password *)
C9_Witness ==
  \E r \in Slots :
    /\ reqs[r].pc = "done" /\ reqs[r].op = "login"
    /\ Response(reqs[r]) = InvalidCredentials
    /\ findUserByEmail(reqs[r].email) # {}

(* C10: a listing request whose page is below 1 or whose limit is outside  *)
(* [1,100] is answered 422.                                                *)
OutOfRange(rawPage, rawLimit) ==
  \/ rawPage.kind = "number" /\ rawPage.tenths < 10 * MinLimit
  \/ rawLimit.kind = "number" /\ rawLimit.tenths < 10 * MinLimit
  \/ rawLimit.kind = "number" /\ rawLimit.tenths > 10 * MaxLimit

C10_OutOfRangeRejected ==
  [][\A rawPage \in RawPages, rawLimit \in RawLimits, search \in Searches,
        sort \in Sorts :
       (OutOfRange(rawPage, rawLimit)
          /\ ListStart(1, rawPage, rawLimit, search, sort))
         => reqs'[1].status = 422]_vars

(* For the requests the validators let through, the listing skips          *)
(* (page-1)*limit records, returns at most limit items and reports the     *)
(* number of active records matching the filter.                           *)
PagingLemma ==
  \A r \in Slots :
    (reqs[r].pc = "done" /\ reqs[r].op = "list" /\ reqs[r].status = 200) =>
      LET all == SelectSeq(products,
                   LAMBDA d : d.active /\ reqs[r].search \in {"", d.name})
          skip == (reqs[r].page - 1) * reqs[r].limit
      IN  /\ reqs[r].page >= MinLimit
          /\ reqs[r].limit \in MinLimit..MaxLimit
          /\ Len(reqs[r].items) <= reqs[r].limit
          /\ reqs[r].total = Len(all)
          /\ Len(reqs[r].items) =
               IF Len(all) < skip THEN 0 ELSE Min(reqs[r].limit, Len(all) - skip)

===========================================================================
